---------------------------- MODULE Spec2Model ----------------------------
(***************************************************************************)
(* Model of scripts/check-toplevel-code.py: a line-oriented scanner that   *)
(* reports Swift statements which look executable at brace depth 0.        *)
(*                                                                         *)
(* Text is modelled as a sequence of one-character strings, so that        *)
(* strip(), the substring tests, the string-masking substitution, the      *)
(* regular expressions and the output formatting are computed character by *)
(* character, as the script computes them.                                 *)
(***************************************************************************)
EXTENDS Integers, Sequences, FiniteSets, TLC

VARIABLES
    swift_files,            \* list built by the os.walk loop (walk order)
    file_idx,               \* number of files of sorted(swift_files) finished
    lines,                  \* content.split('\n') of the file being scanned
    i,                      \* enumerate(lines, 1): number of the last line processed
    brace_depth,
    issues,                 \* list of (line number, text) of the current file
    in_multiline_comment,
    verdict,                \* where the loop body left the last line processed
    stdout,                 \* lines printed so far
    results,                \* history: per finished file, its path, lines and final scan state
    pc                      \* "files" (outer loop), "lines" (inner loop), "done"

vars == << swift_files, file_idx, lines, i, brace_depth, issues,
           in_multiline_comment, verdict, stdout, results, pc >>

----------------------------------------------------------------------------
(* Bounds of the model *)

\* Largest number of directory entries os.walk yields.
MaxFiles == 2
\* Largest number of lines of the tree: a tree of n Swift files holds files of
\* at most MaxLines \div n lines each (and, alone, the scenario file).
MaxLines == 4

----------------------------------------------------------------------------
(* Text primitives *)

Min(a, b) == IF a <= b THEN a ELSE b

\* s[n:]
Drop(s, n) == SubSeq(s, n + 1, Len(s))

\* s[:n]
Take(s, n) == SubSeq(s, 1, Min(n, Len(s)))

\* Characters str.strip() removes and \s matches ('\n' never occurs in a line).
Whitespace == {" ","\t","\r","\f"}

\* Characters \w matches.
WordChars == {"a","b","c","d","e","f","g","h","i","j","k","l","m","n","o","p","q","r","s","t","u","v","w","x","y","z","A","B","C","D","E","F","G","H","I","J","K","L","M","N","O","P","Q","R","S","T","U","V","W","X","Y","Z","0","1","2","3","4","5","6","7","8","9","_"}

RECURSIVE LStrip(_)
LStrip(s) == IF s # <<>> /\ Head(s) \in Whitespace THEN LStrip(Tail(s)) ELSE s

RECURSIVE RStrip(_)
RStrip(s) ==
    IF s # <<>> /\ s[Len(s)] \in Whitespace
    THEN RStrip(SubSeq(s, 1, Len(s) - 1))
    ELSE s

\* line.strip()
Strip(s) == RStrip(LStrip(s))

\* s.startswith(p)
StartsWith(s, p) == Len(p) <= Len(s) /\ SubSeq(s, 1, Len(p)) = p

\* s.endswith(p)
EndsWith(s, p) == Len(p) <= Len(s) /\ SubSeq(s, Len(s) - Len(p) + 1, Len(s)) = p

\* p in s
Contains(s, p) == \E k \in 0..(Len(s) - Len(p)) : SubSeq(s, k + 1, k + Len(p)) = p

\* s.count(c) for a single character c
Count(s, c) == Cardinality({k \in 1..Len(s) : s[k] = c})

\* s.split('\n')
RECURSIVE SplitLines(_)
SplitLines(s) ==
    IF \A k \in 1..Len(s) : s[k] # "\n"
    THEN << s >>
    ELSE LET k == CHOOSE k \in 1..Len(s) :
                      s[k] = "\n" /\ \A j \in 1..(k - 1) : s[j] # "\n"
         IN  << SubSeq(s, 1, k - 1) >> \o SplitLines(Drop(s, k))

\* str(n) for n >= 0
DigitChars == <<"0","1","2","3","4","5","6","7","8","9">>

RECURSIVE Decimal(_)
Decimal(n) ==
    IF n < 10
    THEN << DigitChars[n + 1] >>
    ELSE Decimal(n \div 10) \o << DigitChars[(n % 10) + 1] >>

\* ord(c), for the characters of the paths of the model
CodePoint == ("." :> 46) @@ ("/" :> 47) @@ ("A" :> 65) @@ ("B" :> 66) @@ ("C" :> 67) @@ ("D" :> 68) @@ ("E" :> 69) @@ ("F" :> 70) @@ ("G" :> 71) @@ ("H" :> 72) @@ ("I" :> 73) @@ ("J" :> 74) @@ ("K" :> 75) @@ ("L" :> 76) @@ ("M" :> 77) @@ ("N" :> 78) @@ ("O" :> 79) @@ ("P" :> 80) @@ ("Q" :> 81) @@ ("R" :> 82) @@ ("S" :> 83) @@ ("T" :> 84) @@ ("U" :> 85) @@ ("V" :> 86) @@ ("W" :> 87) @@ ("X" :> 88) @@ ("Y" :> 89) @@ ("Z" :> 90) @@ ("a" :> 97) @@ ("b" :> 98) @@ ("c" :> 99) @@ ("d" :> 100) @@ ("e" :> 101) @@ ("f" :> 102) @@ ("g" :> 103) @@ ("h" :> 104) @@ ("i" :> 105) @@ ("j" :> 106) @@ ("k" :> 107) @@ ("l" :> 108) @@ ("m" :> 109) @@ ("n" :> 110) @@ ("o" :> 111) @@ ("p" :> 112) @@ ("q" :> 113) @@ ("r" :> 114) @@ ("s" :> 115) @@ ("t" :> 116) @@ ("u" :> 117) @@ ("v" :> 118) @@ ("w" :> 119) @@ ("x" :> 120) @@ ("y" :> 121) @@ ("z" :> 122)

\* a < b on str: lexicographic by code point, a proper prefix first
RECURSIVE StrLess(_, _)
StrLess(a, b) ==
    IF b = <<>> THEN FALSE
    ELSE IF a = <<>> THEN TRUE
    ELSE IF Head(a) = Head(b) THEN StrLess(Tail(a), Tail(b))
    ELSE CodePoint[Head(a)] < CodePoint[Head(b)]

\* Insertion of p into an ascending list, after its equals (sorted() is stable).
RECURSIVE InsertSorted(_, _)
InsertSorted(p, s) ==
    IF s = <<>> THEN << p >>
    ELSE IF StrLess(p, Head(s)) THEN << p >> \o s
    ELSE << Head(s) >> \o InsertSorted(p, Tail(s))

RECURSIVE SortPathsFrom(_, _)
SortPathsFrom(todo, acc) ==
    IF todo = <<>> THEN acc
    ELSE SortPathsFrom(Tail(todo), InsertSorted(Head(todo), acc))

SortPathsUnsorted(paths) == paths

\* sorted(swift_files)
SortPaths(paths) == SortPathsFrom(paths, <<>>)

----------------------------------------------------------------------------
(* The per-line tests of the loop body *)

CommentOpen == <<"/","*">>
CommentClose == <<"*","/">>
LineComment == <<"/","/">>
Quote == "\""

AfterCommentOpenAtStart(stripped, in_comment) ==
    IF StartsWith(stripped, CommentOpen) /\ ~in_comment THEN TRUE ELSE in_comment

\* if '/*' in stripped and not in_multiline_comment: in_multiline_comment = True
AfterCommentOpen(stripped, in_comment) ==
    IF Contains(stripped, CommentOpen) /\ ~in_comment THEN TRUE ELSE in_comment

HasCommentCloseNever(stripped) == FALSE

HasCommentCloseAtEnd(stripped) == EndsWith(stripped, CommentClose)

\* if '*/' in stripped
HasCommentClose(stripped) == Contains(stripped, CommentClose)

InsideCommentNever(in_comment) == FALSE

\* if in_multiline_comment
InsideComment(in_comment) == in_comment

IsLineCommentTriple(stripped) == StartsWith(stripped, <<"/","/","/">>)

\* if stripped.startswith('//')
IsLineComment(stripped) == StartsWith(stripped, LineComment)

\* if not stripped
IsBlank(stripped) == stripped = <<>>

MaskStringsNone(s) == s

\* re.sub(r'"[^"]*"', '""', s): the leftmost span from a quote to the next quote
\* becomes two quotes, and the substitution goes on after it; a quote with no
\* quote after it is left in place.
RECURSIVE MaskStrings(_)
MaskStrings(s) ==
    LET quotes == { k \in 1..Len(s) : s[k] = Quote }
    IN  IF Cardinality(quotes) < 2
        THEN s
        ELSE LET open  == CHOOSE k \in quotes : \A j \in quotes : k <= j
                 close == CHOOSE k \in quotes \ {open} :
                              \A j \in quotes \ {open} : k <= j
             IN  SubSeq(s, 1, open) \o << Quote >> \o MaskStrings(Drop(s, close))

AtTopLevelOrAbove(depth) == depth >= 0

AtTopLevelOrBelow(depth) == depth <= 0

\* if brace_depth == 0
AtTopLevel(depth) == depth = 0

\* The patterns with the first one reading into the string literal:
\* ^print\("\s*\{ in place of ^print\s*\(
ExecPatternsQuoted ==
    << [kind |-> "block", word |-> <<"p","r","i","n","t","(","\"">>] >>
        \o [k \in 1..16 |-> [kind |-> "keyword", word |-> <<"i","f">>]]

\* exec_patterns, in order.  kind "call" is ^word\s*\( , "block" is ^word\s*\{ ,
\* "member" is ^word\.\w and "keyword" is ^word\s
ExecPatterns == <<
    [kind |-> "call",    word |-> <<"p","r","i","n","t">>],
    [kind |-> "call",    word |-> <<"d","e","b","u","g","P","r","i","n","t">>],
    [kind |-> "block",   word |-> <<"T","a","s","k">>],
    [kind |-> "member",  word |-> <<"T","a","s","k">>],
    [kind |-> "keyword", word |-> <<"i","f">>],
    [kind |-> "keyword", word |-> <<"g","u","a","r","d">>],
    [kind |-> "keyword", word |-> <<"s","w","i","t","c","h">>],
    [kind |-> "keyword", word |-> <<"f","o","r">>],
    [kind |-> "keyword", word |-> <<"w","h","i","l","e">>],
    [kind |-> "keyword", word |-> <<"r","e","p","e","a","t">>],
    [kind |-> "block",   word |-> <<"d","o">>],
    [kind |-> "keyword", word |-> <<"r","e","t","u","r","n">>],
    [kind |-> "keyword", word |-> <<"t","r","y">>],
    [kind |-> "keyword", word |-> <<"a","w","a","i","t">>],
    [kind |-> "call",    word |-> <<"f","a","t","a","l","E","r","r","o","r">>],
    [kind |-> "call",    word |-> <<"p","r","e","c","o","n","d","i","t","i","o","n">>],
    [kind |-> "call",    word |-> <<"a","s","s","e","r","t">>] >>

MatchPatternAnywhere(p, s) ==
    \E k \in 0..Len(s) :
        /\ StartsWith(Drop(s, k), p.word)
        /\ LET rest == Drop(s, k + Len(p.word))
           IN  CASE p.kind = "call" ->
                        LStrip(rest) # <<>> /\ Head(LStrip(rest)) = "("
                 [] p.kind = "block" ->
                        LStrip(rest) # <<>> /\ Head(LStrip(rest)) = "{"
                 [] p.kind = "member" ->
                        Len(rest) >= 2 /\ rest[1] = "." /\ rest[2] \in WordChars
                 [] p.kind = "keyword" ->
                        rest # <<>> /\ Head(rest) \in Whitespace

\* re.match(p, s): the pattern matches at the start of s
MatchPattern(p, s) ==
    /\ StartsWith(s, p.word)
    /\ LET rest == Drop(s, Len(p.word))
       IN  CASE p.kind = "call" ->
                    LStrip(rest) # <<>> /\ Head(LStrip(rest)) = "("
             [] p.kind = "block" ->
                    LStrip(rest) # <<>> /\ Head(LStrip(rest)) = "{"
             [] p.kind = "member" ->
                    Len(rest) >= 2 /\ rest[1] = "." /\ rest[2] \in WordChars
             [] p.kind = "keyword" ->
                    rest # <<>> /\ Head(rest) \in Whitespace

\* is_exec = any(re.match(p, stripped) for p in exec_patterns)
IsExec(stripped) ==
    \E k \in 1..Len(ExecPatterns) : MatchPattern(ExecPatterns[k], stripped)

\* stripped[:120]
TruncLen == 120

\* (i, stripped[:120])
IssueOfWhole(line_no, stripped) == << line_no, stripped >>

IssueOfZeroBased(line_no, stripped) == << line_no - 1, Take(stripped, TruncLen) >>

IssueOf(line_no, stripped) == << line_no, Take(stripped, TruncLen) >>

LineNumberStuck(k) == k

\* enumerate(lines, 1): the number of the line at 0-based position k
LineNumber(k) == k + 1

----------------------------------------------------------------------------
(* One iteration of the inner loop *)

\* The loop body with the depth update moved before the classification.
ProcessLineUpdateFirst(st, line_no, line) ==
    LET stripped == Strip(line)
        opened   == AfterCommentOpen(stripped, st.in_multiline_comment)
    IN  IF HasCommentClose(stripped)
        THEN [st EXCEPT !.in_multiline_comment = FALSE] @@ [verdict |-> "close"]
        ELSE IF InsideComment(opened)
        THEN [st EXCEPT !.in_multiline_comment = TRUE] @@ [verdict |-> "comment"]
        ELSE IF IsLineComment(stripped)
        THEN [st EXCEPT !.in_multiline_comment = opened] @@ [verdict |-> "slashes"]
        ELSE IF IsBlank(stripped)
        THEN [st EXCEPT !.in_multiline_comment = opened] @@ [verdict |-> "blank"]
        ELSE
            LET code_line == MaskStrings(stripped)
                opens     == Count(code_line, "{")
                closes    == Count(code_line, "}")
                top       == AtTopLevel(st.brace_depth + opens - closes)
                is_exec   == top /\ IsExec(stripped)
            IN  [brace_depth |-> st.brace_depth + opens - closes,
                 issues |-> IF is_exec
                            THEN Append(st.issues, IssueOf(line_no, stripped))
                            ELSE st.issues,
                 in_multiline_comment |-> opened,
                 verdict |-> IF ~top THEN "nested"
                             ELSE IF is_exec THEN "issue" ELSE "plain"]

\* The body of "for i, line in enumerate(lines, 1)" for one line, from the scan
\* state st = [brace_depth, issues, in_multiline_comment]; verdict names the
\* statement at which the iteration ended.
ProcessLine(st, line_no, line) ==
    LET stripped == Strip(line)
        opened   == AfterCommentOpen(stripped, st.in_multiline_comment)
    IN  IF HasCommentClose(stripped)
        THEN [st EXCEPT !.in_multiline_comment = FALSE] @@ [verdict |-> "close"]
        ELSE IF InsideComment(opened)
        THEN [st EXCEPT !.in_multiline_comment = TRUE] @@ [verdict |-> "comment"]
        ELSE IF IsLineComment(stripped)
        THEN [st EXCEPT !.in_multiline_comment = opened] @@ [verdict |-> "slashes"]
        ELSE IF IsBlank(stripped)
        THEN [st EXCEPT !.in_multiline_comment = opened] @@ [verdict |-> "blank"]
        ELSE
            LET code_line == MaskStrings(stripped)
                opens     == Count(code_line, "{")
                closes    == Count(code_line, "}")
                top       == AtTopLevel(st.brace_depth)
                is_exec   == top /\ IsExec(stripped)
            IN  [brace_depth |-> st.brace_depth + opens - closes,
                 issues |-> IF is_exec
                            THEN Append(st.issues, IssueOf(line_no, stripped))
                            ELSE st.issues,
                 in_multiline_comment |-> opened,
                 verdict |-> IF ~top THEN "nested"
                             ELSE IF is_exec THEN "issue" ELSE "plain"]

ScanState == [brace_depth |-> brace_depth, issues |-> issues,
              in_multiline_comment |-> in_multiline_comment]

InitScanStateKeep(st) == [st EXCEPT !.issues = <<>>]

\* brace_depth = 0; issues = []; in_multiline_comment = False
InitScanState(st) ==
    [brace_depth |-> 0, issues |-> <<>>, in_multiline_comment |-> FALSE]

----------------------------------------------------------------------------
(* Output *)

\* print(text): the lines that text followed by a newline adds to stdout
Emit(out, text) == out \o SplitLines(text)

\* f'*** ISSUES IN: {filepath} ***'
HeaderText(filepath) == <<"*","*","*"," ","I","S","S","U","E","S"," ","I","N",":"," ">> \o filepath \o <<" ","*","*","*">>

\* f'  Line {line_no}: {text}'
IssueText(issue) == <<" "," ","L","i","n","e"," ">> \o Decimal(issue[1]) \o <<":"," ">> \o issue[2]

\* '\n--- Script complete ---'
CompleteText == <<"\n","-","-","-"," ","S","c","r","i","p","t"," ","c","o","m","p","l","e","t","e"," ","-","-","-">>

RECURSIVE EmitIssues(_, _)
EmitIssues(out, iss) ==
    IF iss = <<>> THEN out
    ELSE EmitIssues(Emit(out, IssueText(Head(iss))), Tail(iss))

EmitFileAlways(out, filepath, iss) ==
    EmitIssues(Emit(out, HeaderText(filepath)), iss)

\* if issues: print header, then one line per issue
EmitFile(out, filepath, iss) ==
    IF iss # <<>> THEN EmitIssues(Emit(out, HeaderText(filepath)), iss) ELSE out

----------------------------------------------------------------------------
(* Input: the directory tree and the file contents *)

SwiftSuffix == <<".","s","w","i","f","t">>

\* Paths os.walk can yield; one does not end in '.swift'.
WalkPaths == { <<"s","/","B",".","s","w","i","f","t">>, <<"s","/","a",".","s","w","i","f","t">>, <<"s","/","a","/","A",".","s","w","i","f","t">>, <<"s","/","a",".","t","x","t">> }

\* Lists of at most n distinct elements of S.
DistinctSeqs(S, n) ==
    UNION { { s \in [1..k -> S] : \A a, b \in 1..k : a # b => s[a] # s[b] }
            : k \in 0..n }

\* if f.endswith('.swift'): swift_files.append(os.path.join(root, f))
RECURSIVE FilterSwift(_)
FilterSwift(walked) ==
    IF walked = <<>> THEN <<>>
    ELSE IF EndsWith(Head(walked), SwiftSuffix)
    THEN << Head(walked) >> \o FilterSwift(Tail(walked))
    ELSE FilterSwift(Tail(walked))

\* Source lines the model files are built from.
LPrint  == <<" "," ","p","r","i","n","t","(","\"","{","\"",")">>
LIf     == <<"i","f"," ","x"," ","{">>
LClose  == <<"}">>
LStr    == <<"l","e","t"," ","s"," ","="," ","t","r","y"," ","f","(","\"","{","\"",")">>
LTrail  == <<"f","(",")"," ","/","/"," ","{">>
LEsc    == <<"l","e","t"," ","e"," ","="," ","\"","\\","\"","{","\"">>
LOpenC  == <<"i","f"," ","x"," ","{"," ","/","*"," ","c">>
LCloseC == <<"p","r","i","n","t","(","\"","*","/","\"",")"," ","}">>
LBoth   == <<"p","r","i","n","t","(","\"","a","\"",")"," ","/","*"," ","{"," ","*","/">>
LSlash  == <<" "," ","/","/"," ","i","f"," ","x"," ","{">>
LEmpty  == <<>>
LBlank  == <<" ","\t">>
LOdd    == <<"l","e","t"," ","q"," ","="," ","\"","}">>
\* A print call longer than the 120 characters an issue keeps.
LLong   == <<"p","r","i","n","t","(","\"">> \o [k \in 1..(TruncLen + 2) |-> "x"] \o <<"\"",")">>

Alphabets == {
    { LPrint, LIf, LClose, LStr, LTrail },
    { LPrint, LIf, LOpenC, LCloseC, LBoth },
    { LPrint, LSlash, LEmpty, LBlank, LOdd },
    { LPrint, LClose, LEsc, LLong } }

\* The scenario file of the specification's testable properties.
ScenarioLines == <<
    <<"i","m","p","o","r","t"," ","M","o","d","u","l","e">>,
    <<"s","t","r","u","c","t"," ","F","o","o"," ","{">>,
    <<" "," "," "," ","f","u","n","c"," ","b","a","r","(",")"," ","{">>,
    <<" "," "," "," "," "," "," "," ","p","r","i","n","t","(","\"","i","n","s","i","d","e","\"",")">>,
    <<" "," "," "," ","}">>,
    <<"}">>,
    <<"p","r","i","n","t","(","\"","t","o","p"," ","l","e","v","e","l","\"",")">> >>

\* '\n'.join(ls)
RECURSIVE JoinLines(_)
JoinLines(ls) ==
    IF ls = <<>> THEN <<>>
    ELSE IF Len(ls) = 1 THEN ls[1]
    ELSE ls[1] \o << "\n" >> \o JoinLines(Tail(ls))

\* File contents of at most n lines over one alphabet.
Contents(n) ==
    { JoinLines(ls) : ls \in UNION { [1..k -> A] : k \in 0..n, A \in Alphabets } }

\* What fh.read() can return, by the number of Swift files of the tree.
Readable(nfiles) ==
    Contents(MaxLines \div nfiles)
        \cup (IF nfiles = 1 THEN { JoinLines(ScenarioLines) } ELSE {})

----------------------------------------------------------------------------
(* The program *)

SortedFilesWalkOrder == swift_files

\* sorted(swift_files)
SortedFiles == SortPaths(swift_files)

\* State after the os.walk loop (lines 3-8).
Init ==
    /\ \E walked \in DistinctSeqs(WalkPaths, MaxFiles) :
           swift_files = FilterSwift(walked)
    /\ file_idx = 0
    /\ lines = <<>>
    /\ i = 0
    /\ brace_depth = 0
    /\ issues = <<>>
    /\ in_multiline_comment = FALSE
    /\ verdict = "none"
    /\ stdout = <<>>
    /\ results = <<>>
    /\ pc = "files"

\* Lines 10-17: the next file is read and the scan state initialised.
OpenFile ==
    /\ pc = "files"
    /\ file_idx < Len(SortedFiles)
    /\ \E content \in Readable(Len(swift_files)) :
           lines' = SplitLines(content)
    /\ LET st == InitScanState(ScanState)
       IN  /\ brace_depth' = st.brace_depth
           /\ issues' = st.issues
           /\ in_multiline_comment' = st.in_multiline_comment
    /\ i' = 0
    /\ verdict' = "none"
    /\ pc' = "lines"
    /\ UNCHANGED << swift_files, file_idx, stdout, results >>

\* Lines 19-64: one iteration of the inner loop.
ScanLine ==
    /\ pc = "lines"
    /\ i < Len(lines)
    /\ LET r == ProcessLine(ScanState, LineNumber(i), lines[i + 1])
       IN  /\ brace_depth' = r.brace_depth
           /\ issues' = r.issues
           /\ in_multiline_comment' = r.in_multiline_comment
           /\ verdict' = r.verdict
    /\ i' = LineNumber(i)
    /\ UNCHANGED << swift_files, file_idx, lines, stdout, results, pc >>

\* Lines 66-69: the inner loop is exhausted; the file's block is printed.
ReportFile ==
    /\ pc = "lines"
    /\ i = Len(lines)
    /\ stdout' = EmitFile(stdout, SortedFiles[file_idx + 1], issues)
    /\ results' = Append(results, [filepath |-> SortedFiles[file_idx + 1],
                                   lines |-> lines,
                                   issues |-> issues,
                                   brace_depth |-> brace_depth,
                                   in_multiline_comment |-> in_multiline_comment])
    /\ file_idx' = file_idx + 1
    /\ pc' = "files"
    /\ UNCHANGED << swift_files, lines, i, brace_depth, issues,
                    in_multiline_comment, verdict >>

\* Line 71: the outer loop is exhausted; the completion marker is printed.
Complete ==
    /\ pc = "files"
    /\ file_idx = Len(SortedFiles)
    /\ stdout' = Emit(stdout, CompleteText)
    /\ pc' = "done"
    /\ UNCHANGED << swift_files, file_idx, lines, i, brace_depth, issues,
                    in_multiline_comment, verdict, results >>

Next == OpenFile \/ ScanLine \/ ReportFile \/ Complete

Spec == Init /\ [][Next]_vars

----------------------------------------------------------------------------
(* Vocabulary of the properties *)

\* The inner loop is about to process line i + 1 of the current file.
Scanning == pc = "lines" /\ i < Len(lines)

\* The line the next iteration processes, trimmed.
NextStripped == Strip(lines[i + 1])

\* The last iteration reached the executable-statement matcher.
Classified(v) == v \in {"plain", "issue"}

BraceCount(text) == Count(text, "{") + Count(text, "}")
BraceDelta(text) == Count(text, "{") - Count(text, "}")

Minimum(S) == CHOOSE k \in S : \A j \in S : k <= j

Backslash == "\\"

\* The character at position k of s follows an odd run of backslashes.
EscapedAt(s, k) ==
    Cardinality({ n \in 1..(k - 1) :
                    \A m \in (k - n)..(k - 1) : s[m] = Backslash }) % 2 = 1

\* Reference reading of one line, as the language reads it: code is the text
\* outside comments with the contents of every terminated string literal
\* removed (an escaped quote does not end a literal; a quote that is never
\* closed starts no literal); comment tells whether the line holds comment
\* text; in_block whether a block comment is open at the end of the line.
RECURSIVE RefLex(_, _)
RefLex(s, in_block) ==
    IF in_block
    THEN LET ends == { k \in 1..(Len(s) - 1) : SubSeq(s, k, k + 1) = CommentClose }
         IN  IF ends = {}
             THEN [code |-> <<>>, comment |-> TRUE, in_block |-> TRUE]
             ELSE [RefLex(Drop(s, Minimum(ends) + 1), FALSE) EXCEPT !.comment = TRUE]
    ELSE LET marks == { k \in 1..Len(s) :
                          \/ s[k] = Quote
                          \/ /\ k < Len(s)
                             /\ SubSeq(s, k, k + 1) \in {CommentOpen, LineComment} }
         IN  IF marks = {}
             THEN [code |-> s, comment |-> FALSE, in_block |-> FALSE]
             ELSE
                 LET k   == Minimum(marks)
                     pre == SubSeq(s, 1, k - 1)
                 IN  IF s[k] = Quote
                     THEN LET closes == { j \in (k + 1)..Len(s) :
                                            s[j] = Quote /\ ~EscapedAt(s, j) }
                          IN  IF closes = {}
                              THEN [RefLex(Drop(s, k), FALSE)
                                        EXCEPT !.code = pre \o << Quote >> \o @]
                              ELSE [RefLex(Drop(s, Minimum(closes)), FALSE)
                                        EXCEPT !.code = pre \o << Quote, Quote >> \o @]
                     ELSE IF SubSeq(s, k, k + 1) = LineComment
                     THEN [code |-> pre, comment |-> TRUE, in_block |-> FALSE]
                     ELSE [RefLex(Drop(s, k + 1), TRUE)
                               EXCEPT !.code = pre \o @, !.comment = TRUE]

\* Brace nesting of the reference reading after the lines ls.
RECURSIVE RefDepth(_, _, _)
RefDepth(ls, in_block, depth) ==
    IF ls = <<>> THEN depth
    ELSE LET r == RefLex(Strip(Head(ls)), in_block)
         IN  RefDepth(Tail(ls), r.in_block, depth + BraceDelta(r.code))

----------------------------------------------------------------------------
(* C1 *)

\* C1 as stated: a line is handed to the executable-statement matcher iff it
\* is not inside a block comment (the tracker is in block-comment state neither
\* before the line nor after the line's own '/*' is seen), it is not a full-line
\* '//' comment, it is not blank after trimming, and brace_depth is 0 before
\* the line's own braces are applied.
C1_EligibleIffFour ==
    [][Scanning =>
        (Classified(verdict') <=>
            /\ ~in_multiline_comment
            /\ ~Contains(NextStripped, CommentOpen)
            /\ ~StartsWith(NextStripped, LineComment)
            /\ NextStripped # <<>>
            /\ brace_depth = 0)]_vars

\* C1 amended: a line is handed to the matcher iff the four conditions hold
\* and, in addition, the trimmed line does not contain '*/'.
C1_EligibleIffNoCommentToken ==
    [][Scanning =>
        (Classified(verdict') <=>
            /\ ~in_multiline_comment
            /\ ~Contains(NextStripped, CommentOpen)
            /\ ~Contains(NextStripped, CommentClose)
            /\ ~StartsWith(NextStripped, LineComment)
            /\ NextStripped # <<>>
            /\ brace_depth = 0)]_vars

\* The first line of a file starts with print(...) and holds '*/' but no '/*':
\* it was skipped at depth 0 outside any block comment; the next line was
\* classified and recorded.
C1_Witness ==
    /\ pc = "lines"
    /\ i = 2
    /\ lines[1] = LCloseC
    /\ brace_depth = 0
    /\ issues # <<>>
    /\ issues[1][1] = 2
    /\ verdict = "issue"

----------------------------------------------------------------------------
(* C2 *)

\* Whether the reference reading has a block comment open after the lines ls.
RECURSIVE RefInBlock(_, _)
RefInBlock(ls, in_block) ==
    IF ls = <<>> THEN in_block
    ELSE RefInBlock(Tail(ls), RefLex(Strip(Head(ls)), in_block).in_block)

\* C2 as stated: brace characters inside string literals or comments (block
\* comments, full-line comments, comment text on a code line) never change
\* brace_depth, so a line changes it by nothing or by the braces of its code
\* text, and after any sequence of lines brace_depth equals the number of '{'
\* minus the number of '}' in the text outside string literals and comments.
C2_DepthIsCodeNesting ==
    [][Scanning =>
        LET before == SubSeq(lines, 1, i)
            code   == RefLex(NextStripped, RefInBlock(before, FALSE)).code
        IN  /\ brace_depth' - brace_depth \in {0, BraceDelta(code)}
            /\ brace_depth' = RefDepth(SubSeq(lines, 1, i + 1), FALSE, 0)]_vars

----------------------------------------------------------------------------
(* C3 *)

\* C3: a line that matches an executable-statement pattern and is processed
\* while brace_depth >= 1 records no Issue, whatever came before it.
C3_NoIssueInsideBody ==
    [][Scanning /\ brace_depth >= 1 /\ IsExec(NextStripped)
           => issues' = issues]_vars

\* A print(...) line was processed at depth >= 1 and recorded nothing.
C3_Witness ==
    /\ pc = "lines"
    /\ i >= 2
    /\ lines[i] = LPrint
    /\ brace_depth >= 1
    /\ verdict = "nested"
    /\ \A k \in 1..Len(issues) : issues[k][1] # i

----------------------------------------------------------------------------
(* C4 *)

\* ^print\s*\(
PrintPattern == ExecPatterns[1]

ScenarioIssue == << 7, <<"p","r","i","n","t","(","\"","t","o","p"," ","l","e","v","e","l","\"",")">> >>

\* A line that starts with print(...) is about to be processed at depth 0 with
\* the tracker outside a block comment and no block-comment token on the line.
TopLevelPrint ==
    /\ Scanning
    /\ brace_depth = 0
    /\ ~in_multiline_comment
    /\ ~Contains(NextStripped, CommentOpen)
    /\ ~Contains(NextStripped, CommentClose)
    /\ MatchPattern(PrintPattern, NextStripped)

\* The scenario file: line 4 is processed at depth 2 and records nothing, and
\* the whole file yields exactly the Issue (7, print("top level")).
ScenarioSteps ==
    /\ Scanning /\ lines = ScenarioLines /\ i = 3
           => brace_depth = 2 /\ issues' = issues
    /\ pc' = "lines" /\ lines' = ScenarioLines /\ i' = Len(ScenarioLines)
           => issues' = << ScenarioIssue >>

----------------------------------------------------------------------------
(* C5 *)

\* Line k of ls lies after a line that holds '/*' and no '*/', with no '*/' on
\* any line from there up to and including line k.
InsideBlock(ls, k) ==
    \E j \in 1..(k - 1) :
        /\ Contains(Strip(ls[j]), CommentOpen)
        /\ \A m \in j..k : ~Contains(Strip(ls[m]), CommentClose)

\* C5: a line strictly between a block-comment-open line and the next
\* block-comment-close line is skipped whatever it holds: it records no Issue
\* and leaves brace_depth unchanged.
C5_BlockCommentLinesSkipped ==
    [][Scanning /\ InsideBlock(lines, i + 1)
           => /\ issues' = issues
              /\ brace_depth' = brace_depth
              /\ verdict' = "comment"]_vars

\* 'if x {' stood between an opening line and a closing line, and was skipped.
C5_Witness ==
    /\ pc = "lines"
    /\ i = 3
    /\ lines[1] = LOpenC
    /\ lines[2] = LIf
    /\ lines[3] = LCloseC
    /\ issues = <<>>
    /\ brace_depth = 0
    /\ ~in_multiline_comment

----------------------------------------------------------------------------
(* C6 *)

\* The next line is no comment line, holds braces, and every brace of it lies
\* inside a double-quoted string literal.
BracesOnlyInLiterals ==
    /\ Scanning
    /\ ~in_multiline_comment
    /\ LET r == RefLex(NextStripped, FALSE)
       IN  /\ ~r.comment
           /\ BraceCount(NextStripped) > 0
           /\ BraceCount(r.code) = 0

\* C6 as stated: a non-comment line whose only braces lie inside a
\* double-quoted string literal leaves brace_depth unchanged, and records an
\* Issue only if its own leading token matches an executable pattern.
C6_LiteralBracesInert ==
    [][BracesOnlyInLiterals
           => /\ brace_depth' = brace_depth
              /\ issues' # issues => IsExec(NextStripped)]_vars

\* C6 amended: as stated, for lines that hold no backslash-escaped quote.
C6_PlainLiteralBracesInert ==
    [][BracesOnlyInLiterals /\ ~Contains(NextStripped, << Backslash, Quote >>)
           => /\ brace_depth' = brace_depth
              /\ issues' # issues => IsExec(NextStripped)]_vars

\* let s = try f("{") was processed inside a body and print("{") after the body: the
\* depth moved only by the braces outside literals, and only print was recorded.
C6_Witness ==
    /\ pc = "lines"
    /\ i = 4
    /\ lines = << LIf, LStr, LClose, LPrint >>
    /\ brace_depth = 0
    /\ Len(issues) = 2
    /\ issues[2] = << 4, Strip(LPrint) >>

----------------------------------------------------------------------------
(* C7 *)

MarkerLine == <<"-","-","-"," ","S","c","r","i","p","t"," ","c","o","m","p","l","e","t","e"," ","-","-","-">>

NoIssuesAnywhere == \A k \in 1..Len(results) : results[k].issues = <<>>

\* The output ends with the marker line, which occurs nowhere else.
OneTrailingMarker ==
    /\ stdout # <<>>
    /\ stdout[Len(stdout)] = MarkerLine
    /\ \A k \in 1..(Len(stdout) - 1) : stdout[k] # MarkerLine

\* C7 as stated: when no file yields an Issue the whole report is exactly the
\* marker line; every report ends with exactly one marker line.
C7_ReportIsMarkerOnly ==
    pc = "done" =>
        /\ NoIssuesAnywhere => stdout = << MarkerLine >>
        /\ OneTrailingMarker

\* C7 amended: when no file yields an Issue no header is printed and the whole
\* report is exactly an empty line followed by the marker line; every report
\* ends with exactly one marker line.
C7_ReportIsBlankThenMarker ==
    pc = "done" =>
        /\ NoIssuesAnywhere => stdout = << <<>>, MarkerLine >>
        /\ OneTrailingMarker

\* Two files of declarations only were scanned and the run is complete.
C7_Witness ==
    /\ pc = "done"
    /\ Len(results) = 2
    /\ NoIssuesAnywhere
    /\ lines = << LStr, LStr >>

----------------------------------------------------------------------------
(* C8 *)

\* The block of one finished file: nothing, or its header and its Issue lines.
BlockOf(r) ==
    IF r.issues = <<>> THEN <<>>
    ELSE << HeaderText(r.filepath) >>
             \o [k \in 1..Len(r.issues) |-> IssueText(r.issues[k])]

RECURSIVE BlocksOf(_)
BlocksOf(rs) == IF rs = <<>> THEN <<>> ELSE BlockOf(Head(rs)) \o BlocksOf(Tail(rs))

\* C8: the report holds a header for a file iff the file produced an Issue,
\* each header directly followed by the file's Issue lines in strictly
\* ascending line order; the files come in lexicographic path order; the
\* completion marker comes after all blocks.
C8_ReportLayout ==
    /\ stdout = BlocksOf(results)
                    \o (IF pc = "done" THEN << <<>>, MarkerLine >> ELSE <<>>)
    /\ \A a, b \in 1..Len(results) :
           a < b => StrLess(results[a].filepath, results[b].filepath)
    /\ \A k \in 1..Len(results) :
           \A a, b \in 1..Len(results[k].issues) :
               a < b => results[k].issues[a][1] < results[k].issues[b][1]
    /\ pc = "done" =>
           { results[k].filepath : k \in 1..Len(results) }
               = { swift_files[k] : k \in 1..Len(swift_files) }

\* Two files walked in descending order were both reported, one with two Issues.
C8_Witness ==
    /\ pc = "done"
    /\ Len(swift_files) = 2
    /\ StrLess(swift_files[2], swift_files[1])
    /\ Len(results[1].issues) = 2
    /\ Len(results[2].issues) = 1
    /\ Len(stdout) = 7

----------------------------------------------------------------------------
(* C9 *)

FreshScanState == [brace_depth |-> 0, issues |-> <<>>, in_multiline_comment |-> FALSE]

\* The scan state after the first n lines of ls, from the scan state st.
RECURSIVE ScanFrom(_, _, _, _)
ScanFrom(st, ls, done, n) ==
    IF done = n THEN st
    ELSE LET r == ProcessLine(st, done + 1, ls[done + 1])
         IN  ScanFrom([brace_depth |-> r.brace_depth, issues |-> r.issues,
                       in_multiline_comment |-> r.in_multiline_comment],
                      ls, done + 1, n)

\* C9: every file starts with brace_depth 0 and no block comment open, whatever
\* the previous file left behind, so the scan state of a file (its Issues
\* included) is determined by the lines of that file alone.
C9_FileLocalState ==
    pc = "lines" =>
        /\ i = 0 => brace_depth = 0 /\ ~in_multiline_comment /\ issues = <<>>
        /\ ScanState = ScanFrom(FreshScanState, lines, 0, i)

\* The previous file ended inside a body and inside a block comment; the
\* next file was scanned from a fresh state and its first line was recorded.
C9_Witness ==
    /\ pc = "lines"
    /\ Len(results) = 1
    /\ results[1].brace_depth > 0
    /\ results[1].in_multiline_comment
    /\ i = Len(lines)
    /\ issues # <<>>
    /\ issues[1][1] = 1

----------------------------------------------------------------------------
(* C10 *)

PcRank == ("files" :> 1) @@ ("lines" :> 2) @@ ("done" :> 3)

\* A step moves the run forward in the order (file, loop, line).
Advances ==
    \/ file_idx' > file_idx
    \/ file_idx' = file_idx /\ PcRank[pc'] > PcRank[pc]
    \/ file_idx' = file_idx /\ pc' = pc /\ pc = "lines" /\ lines' = lines /\ i' > i

\* The run is complete, or the guard of one of its statements holds: the outer
\* loop has a file to open or is exhausted, the inner loop has a line to
\* process or is exhausted.
CompleteOrRunning ==
    \/ pc = "done"
    \/ pc = "files" /\ file_idx <= Len(SortedFiles)
    \/ pc = "lines" /\ file_idx < Len(SortedFiles) /\ i <= Len(lines)

\* C10: whatever the files hold, the run never stops short of completion,
\* and every step moves it forward in an order bounded by the number of files
\* and of lines, so it reaches completion; at completion the marker is the
\* last line printed.
C10_RunCompletes ==
    [][/\ swift_files' = swift_files
       /\ Advances
       /\ CompleteOrRunning'
       /\ pc' = "done" => stdout' # <<>> /\ stdout'[Len(stdout')] = MarkerLine]_vars

\* A run is complete whose first file ended inside a block comment and whose
\* second file, with an unclosed quote, drove brace_depth below 0.
C10_Witness ==
    /\ pc = "done"
    /\ Len(results) = 2
    /\ results[1].in_multiline_comment
    /\ results[2].brace_depth < 0
    /\ \E k \in 1..Len(lines) : lines[k] = LOdd

----------------------------------------------------------------------------
(* C11 *)

\* The paths of the tree, whatever order os.walk yielded them in.
PathSet == { swift_files[k] : k \in 1..Len(swift_files) }

\* What each finished file held.
HeldLines ==
    [p \in { results[k].filepath : k \in 1..Len(results) } |->
        (CHOOSE r \in { results[k] : k \in 1..Len(results) } : r.filepath = p).lines]

LeastPath(paths) == CHOOSE p \in paths : \A q \in paths \ {p} : StrLess(p, q)

\* The report as a function of a set of paths and of the lines each path holds.
RECURSIVE BlocksOfTree(_, _)
BlocksOfTree(paths, held) ==
    IF paths = {} THEN <<>>
    ELSE LET p  == LeastPath(paths)
             st == ScanFrom(FreshScanState, held[p], 0, Len(held[p]))
         IN  BlockOf([filepath |-> p, issues |-> st.issues])
                 \o BlocksOfTree(paths \ {p}, held)

ReportOfTree(paths, held) == BlocksOfTree(paths, held) \o << <<>>, MarkerLine >>

\* C11: the report of a complete run is a function of the set of paths and of
\* the lines of each file only, so two runs over the same tree (the same paths,
\* in whatever order the walk yields them, holding the same lines) print
\* identical reports.
C11_ReportIsFunctionOfTree ==
    pc = "done" =>
        /\ DOMAIN HeldLines = PathSet
        /\ stdout = ReportOfTree(PathSet, HeldLines)

\* A complete run whose walk yielded s/a.swift before s/B.swift, both holding
\* a reported line: the report lists s/B.swift first.
C11_Witness ==
    /\ pc = "done"
    /\ Len(swift_files) = 2
    /\ StrLess(swift_files[2], swift_files[1])
    /\ results[1].filepath = swift_files[2]
    /\ results[1].issues # <<>>
    /\ results[2].issues # <<>>
    /\ results[1].lines # results[2].lines
    /\ stdout[1] = HeaderText(swift_files[2])

----------------------------------------------------------------------------
(* C12 *)

\* The words the recognized patterns begin with.
TokenWords == { ExecPatterns[k].word : k \in 1..Len(ExecPatterns) }

StartsWithToken(s) == \E w \in TokenWords : StartsWith(s, w)

\* A recognized word occurs in s, but s does not start with one.
TokenOnlyInside(s) ==
    /\ \E w \in TokenWords : Contains(s, w)
    /\ ~StartsWithToken(s)

\* C12: an Issue is recorded only for a line whose trimmed text starts with a
\* recognized token; a line that holds a recognized token only after other
\* leading text (let s = try f(...)) records no Issue, also at depth 0, where
\* it is classified as not executable.
C12_MatchAnchoredAtStart ==
    [][Scanning =>
        /\ issues' # issues => StartsWithToken(NextStripped)
        /\ TokenOnlyInside(NextStripped) =>
               /\ issues' = issues
               /\ verdict' # "issue"]_vars

\* let s = try f("{") was classified at depth 0 and not recorded; the print
\* line after it was.
C12_Witness ==
    /\ pc = "lines"
    /\ lines = << LStr, LPrint >>
    /\ i = 2
    /\ brace_depth = 0
    /\ issues = << << 2, Strip(LPrint) >> >>

----------------------------------------------------------------------------
(* C13 *)

\* The last iteration reached the brace count (it took no skip branch).
Counted(v) == v \in {"nested", "plain", "issue"}

\* C13: a line that is not skipped is classified with the depth from before
\* the line, and then changes the depth by its '{' minus its '}' (string
\* literals masked) whether or not it was recorded; so 'if x {' at depth 0 is
\* recorded and leaves the depth at 1, and no line is recorded for as long as
\* the depth stays at 1 or more, that is up to the line that closes the brace.
C13_ClassifyThenUpdate ==
    [][Scanning =>
        /\ Counted(verdict') =>
               /\ issues' # issues <=> brace_depth = 0 /\ IsExec(NextStripped)
               /\ brace_depth' = brace_depth + BraceDelta(MaskStrings(NextStripped))
        /\ NextStripped = LIf /\ brace_depth = 0 /\ ~in_multiline_comment =>
               /\ issues' = Append(issues, << i + 1, LIf >>)
               /\ brace_depth' = 1
        /\ brace_depth >= 1 => issues' = issues]_vars

\* if x { at depth 0 was recorded; the print line inside its body and the
\* closing brace were not; the print line after the body was.
C13_Witness ==
    /\ pc = "lines"
    /\ lines = << LIf, LPrint, LClose, LPrint >>
    /\ i = 4
    /\ brace_depth = 0
    /\ issues = << << 1, LIf >>, << 4, Strip(LPrint) >> >>

----------------------------------------------------------------------------
(* C14 *)

\* C14: a line that holds '*/' leaves the tracker outside a block comment,
\* records no Issue and leaves brace_depth unchanged, whether or not the
\* tracker was inside a block comment, whether or not the line also holds '/*',
\* and whatever braces or executable-looking code it holds.
C14_CloseLineConsumed ==
    [][Scanning /\ Contains(NextStripped, CommentClose)
           => /\ ~in_multiline_comment'
              /\ issues' = issues
              /\ brace_depth' = brace_depth
              /\ verdict' = "close"]_vars

\* Four lines were consumed at depth 0: print("*/") } outside any comment, a
\* line holding '/*' and '*/', and print("*/") } again after an opening line.
C14_Witness ==
    /\ pc = "lines"
    /\ lines = << LCloseC, LBoth, LOpenC, LCloseC >>
    /\ i = 4
    /\ verdict = "close"
    /\ ~in_multiline_comment
    /\ issues = <<>>
    /\ brace_depth = 0

----------------------------------------------------------------------------
(* C15 *)

\* The next line is one the loop body skips: the tracker is inside a block
\* comment, or the line holds '/*' or '*/', or it is a full-line '//' comment,
\* or it is blank after trimming.
SkippedLine ==
    \/ in_multiline_comment
    \/ Contains(NextStripped, CommentOpen)
    \/ Contains(NextStripped, CommentClose)
    \/ StartsWith(NextStripped, LineComment)
    \/ NextStripped = <<>>

\* C15: brace_depth changes only on a line that is processed outside a block
\* comment and is neither blank, nor a full-line '//' comment, nor a line that
\* holds a block-comment token; every skipped line leaves brace_depth and the
\* Issue list unchanged.
C15_DepthChangesOnCodeLinesOnly ==
    [][Scanning =>
        /\ brace_depth' # brace_depth => ~SkippedLine
        /\ SkippedLine =>
               /\ brace_depth' = brace_depth
               /\ issues' = issues
               /\ ~Counted(verdict')]_vars

\* A '//' line holding 'if x {', a whitespace line and an empty line were
\* skipped at depth 0; the code line after them changed the depth.
C15_Witness ==
    /\ pc = "lines"
    /\ lines = << LSlash, LBlank, LEmpty, LOdd >>
    /\ i = 4
    /\ verdict = "plain"
    /\ brace_depth = -1
    /\ issues = <<>>

----------------------------------------------------------------------------
(* C16 *)

\* The trimmed tails of s: s itself and what is left of it after dropping any
\* number of leading characters.
Tails(s) == { Strip(Drop(s, k)) : k \in 0..Len(s) }

\* C16: the executable-statement matcher gives the same result on the trimmed
\* line and on the trimmed line with its string literals masked (checked for
\* every line and for every trimmed tail of it), so classifying the masked
\* line records an Issue exactly when the code, which classifies the unmasked
\* line, records one.
C16_MaskedMatchSame ==
    [][Scanning =>
        /\ \A t \in Tails(NextStripped) : IsExec(MaskStrings(t)) <=> IsExec(t)
        /\ Counted(verdict') =>
               (issues' # issues <=>
                    brace_depth = 0 /\ IsExec(MaskStrings(NextStripped)))]_vars

\* print("{"), whose masked text differs from it, was recorded at depth 0 and
\* let e = "\"{", which masking leaves with a brace, was not.
C16_Witness ==
    /\ pc = "lines"
    /\ lines = << LPrint, LEsc >>
    /\ i = 2
    /\ MaskStrings(Strip(LPrint)) # Strip(LPrint)
    /\ issues = << << 1, Strip(LPrint) >> >>
    /\ brace_depth = 1

----------------------------------------------------------------------------
(* C17 *)

\* The Issues iss recorded from the first n lines of ls: each carries the
\* number of one of these lines and the first 120 characters of that line's
\* trimmed text, and the numbers ascend strictly (so no line has two Issues).
IssuesWellFormed(iss, ls, n) ==
    /\ \A k \in 1..Len(iss) :
           /\ iss[k][1] \in 1..n
           /\ n <= Len(ls)
           /\ Len(iss[k][2]) <= 120
           /\ iss[k][2] = SubSeq(Strip(ls[iss[k][1]]), 1, Len(iss[k][2]))
           /\ Len(iss[k][2]) = 120 \/ iss[k][2] = Strip(ls[iss[k][1]])
    /\ \A a, b \in 1..Len(iss) : a < b => iss[a][1] < iss[b][1]

\* C17: every recorded Issue carries a 1-based line number between 1 and the
\* number of lines of its file and the prefix of at most 120 characters of the
\* trimmed source line; no line yields two Issues, and the line numbers of a
\* file's Issues ascend strictly in recording order.
C17_IssuesWellFormed ==
    /\ pc = "lines" => IssuesWellFormed(issues, lines, i)
    /\ \A k \in 1..Len(results) :
           IssuesWellFormed(results[k].issues, results[k].lines,
                            Len(results[k].lines))

\* Three print lines were recorded in order, the second one cut to 120 of its
\* 129 characters.
C17_Witness ==
    /\ pc = "lines"
    /\ lines = << LPrint, LLong, LPrint >>
    /\ i = 3
    /\ Len(issues) = 3
    /\ issues[2][1] = 2
    /\ Len(issues[2][2]) = 120
    /\ issues[2][2] # LLong
    /\ issues[3][1] = 3

----------------------------------------------------------------------------
(* C18 *)

\* C18: a line that holds '/*' is never classified and never changes
\* brace_depth, whatever code or braces stand before the token: it is consumed
\* as a closing line when it also holds '*/', and otherwise skipped as comment
\* text (it enters the block comment, or the tracker was inside one already),
\* leaving the tracker inside the block comment.
C18_OpenLineSkipped ==
    [][Scanning /\ Contains(NextStripped, CommentOpen)
           => /\ issues' = issues
              /\ brace_depth' = brace_depth
              /\ IF Contains(NextStripped, CommentClose)
                 THEN verdict' = "close"
                 ELSE verdict' = "comment" /\ in_multiline_comment']_vars

\* if x { /* c entered the block comment at depth 0, a second such line was
\* skipped inside it, a line holding '/*' and '*/' closed it; none changed the
\* depth or was recorded, and the print line after them was recorded.
C18_Witness ==
    /\ pc = "lines"
    /\ lines = << LOpenC, LOpenC, LBoth, LPrint >>
    /\ i = 4
    /\ brace_depth = 0
    /\ issues = << << 4, Strip(LPrint) >> >>

----------------------------------------------------------------------------
(* C19 *)

\* C19: brace_depth is never clamped or reset within a file: every counted
\* line adds its '{' minus its '}' to it, below 0 as well; while it is negative
\* no line is classified and no Issue is recorded; a line is classified only
\* when brace_depth is exactly 0 as the line is processed.
C19_NegativeDepthNotClassified ==
    [][Scanning =>
        /\ brace_depth' = brace_depth
               + (IF Counted(verdict')
                  THEN BraceDelta(MaskStrings(NextStripped)) ELSE 0)
        /\ brace_depth < 0 => issues' = issues /\ ~Classified(verdict')
        /\ Classified(verdict') => brace_depth = 0]_vars

\* A closing brace drove the depth to -1; the print line and the 'if x {' line
\* processed at -1 were not recorded; 'if x {' brought the depth back to 0 and
\* the print line after it was recorded.
C19_Witness ==
    /\ pc = "lines"
    /\ lines = << LClose, LPrint, LIf, LPrint >>
    /\ i = 4
    /\ brace_depth = 0
    /\ issues = << << 4, Strip(LPrint) >> >>

=============================================================================
